---- MODULE Spec2Model ----
(***************************************************************************)
(* BossTrader: the proposal lifecycle of src/app.py (webhook -> proposal   *)
(* -> Telegram notification -> approve/reject/kill callbacks handled by    *)
(* the polling thread), and the membership gate of                        *)
(* src/bosstrader_v2/app.py and src/security.py.                           *)
(*                                                                         *)
(* Spec   is the state machine of src/app.py.                              *)
(* SpecV2 is the state machine of src/bosstrader_v2/app.py, together with  *)
(*        the pure helpers of src/security.py applied to its user rows.    *)
(***************************************************************************)
EXTENDS Integers, Sequences, FiniteSets, TLC

\* ------------------------------------------------------------------ bounds
MaxUpdates == 2      \* updates Telegram ever queues for the bot
MaxRequests == 2     \* /tv-webhook requests ever made
NumPids == 2         \* distinct values uuid4().hex[:10] is drawn from
MaxTime == 2         \* the clock runs from 0 to MaxTime
MaxDays == 1         \* set-paid-until is asked for -1..MaxDays days

\* ------------------------------------------------------- src/app.py: data
PIDs == 1..NumPids
Requests == 1..MaxRequests
NoPid == 0

\* Who pressed the button (callback_query.from). The bot sends every
\* proposal to CHAT_ID, the operator; handle_callback_query never reads it.
Actors == {"operator", "stranger"}

\* callback_data values: keyboard() issues approve:<pid>, reject:<pid>,
\* kill:on, kill:off; "other" is any token none of the branches matches.
CallbackData ==
    {[kind |-> k, pid |-> p] : k \in {"approve", "reject"}, p \in PIDs}
    \cup {[kind |-> k, pid |-> NoPid] : k \in {"kill:on", "kill:off", "other"}}

\* An update without a "callback_query" key (a plain chat message).
PlainMessage == [kind |-> "message", pid |-> NoPid]

\* What an update may hold. handle_callback_query reads neither
\* callback_query.from nor compares the chat id with CHAT_ID, so the sender
\* changes nothing it does; the sender is varied on the decision callbacks.
Taps ==
    {[data |-> d, from |-> a] :
        d \in {x \in CallbackData : x.kind \in {"approve", "reject"}}, a \in Actors}
    \cup {[data |-> d, from |-> "operator"] :
        d \in {x \in CallbackData : x.kind \notin {"approve", "reject"}}
              \cup {PlainMessage}}

\* Fields of the webhook JSON that may be absent (data.get with a default).
Absent == "absent"
Symbols == {Absent, "spy"}
Sides == {Absent, "put"}
Secrets == {"good", "bad"}
TV_WEBHOOK_SECRET == "good"

VARIABLES
    PROPOSALS,      \* src/app.py:38   pid -> [status, symbol, side]
    KILL_SWITCH,    \* src/app.py:39   the "armed" flag
    TG_OFFSET,      \* src/app.py:41   TG_OFFSET["value"]
    tg_next_id,     \* the update_id Telegram gives the next update
    poll_pc,        \* position of telegram_poll_loop
    result,         \* update_ids of the current getUpdates answer still to iterate
    cq,             \* the callback handle_callback_query last ran for, and
                    \* the branch it took
    err,            \* the call whose exception line 161 caught (at 163-164)
    last_answer,    \* the most recent answerCallbackQuery call: id and text
    reqs,           \* the /tv-webhook requests: position, the secret of
                    \* the body once read, pid, response
    risk_calls,     \* pids risk_gate was evaluated for
    trades,         \* the place_trade invocations, by pid, in order
    users,          \* bosstrader_v2: rows of table "users", id = index
    now,            \* bosstrader_v2: the UTC clock
    v2_resp         \* bosstrader_v2: the last call, the row it resolved,
                    \* the time, and the response or result (status, and
                    \* the user_id and api_key it carries)

storeVars == <<PROPOSALS, KILL_SWITCH>>
pollVars == <<TG_OFFSET, poll_pc, result, cq, err, last_answer>>
adapterVars == <<risk_calls, trades>>
tgVars == <<tg_next_id>>
hookVars == <<reqs>>
appVars == <<storeVars, pollVars, tgVars, hookVars, adapterVars>>
v2Vars == <<users, now, v2_resp>>
vars == <<appVars, v2Vars>>

None == "None"
NoCq == [update_id |-> 0, kind |-> "none", pid |-> NoPid, from |-> "none",
         branch |-> "none"]
NoAnswer == [update_id |-> 0, text |-> "none"]
\* A nullable DateTime column: NULL, or the instant At(t).
Null == <<>>
At(t) == <<t>>
InstantOf(d) == d[1]
\* body.secret / data.get("secret"): a value, or None when the key is absent.
SecretInputs == Secrets \cup {None}
NoUser == [email |-> None, api_key |-> None, is_active |-> FALSE,
           paid_until |-> Null]
NoId == 0
NoResp == [op |-> "none", status |-> "none", id |-> NoId, key |-> None,
           user |-> NoUser, at |-> 0]

\* src/risk.py: the stub allows everything.
risk_gate(user, proposal) == <<TRUE, "OK">>

\* src/adapters/manual.py: the manual adapter always succeeds.
place_trade(user, proposal) ==
    <<TRUE, "Manual mode: execute this trade in TopstepX now.">>

\* str(data.get("symbol", "UNKNOWN")).upper()
SymbolOf(body) == IF body.symbol = Absent THEN "UNKNOWN" ELSE "SPY"
\* str(data.get("side", "CALL")).upper()
SideOf(body) == IF body.side = Absent THEN "CALL" ELSE "PUT"

\* uuid.uuid4().hex[:10]: 40 random bits, drawn without looking at PROPOSALS.
uuid4_hex10 == PIDs

\* d[k] = v on a dict
DictSet(d, k, v) == [x \in (DOMAIN d) \cup {k} |-> IF x = k THEN v ELSE d[x]]

\* PROPOSALS[pid]["status"] = s
SetStatus(P, pid, s) == [P EXCEPT ![pid].status = s]

InitApp ==
    /\ PROPOSALS = <<>>
    /\ KILL_SWITCH = FALSE
    /\ TG_OFFSET = 0
    /\ poll_pc = "poll"
    /\ result = <<>>
    /\ cq = NoCq
    /\ err = "none"
    /\ last_answer = NoAnswer
    /\ tg_next_id = 1
    /\ reqs = [r \in Requests |->
                  [pc |-> "idle", secret |-> None, pid |-> NoPid, resp |-> "none"]]
    /\ risk_calls = {}
    /\ trades = <<>>

\* ------------------------------------------------------------ environment
\* Somebody presses a button of a bot message (or writes to the bot):
\* Telegram queues an update with the next update_id. Nothing reads what the
\* update holds before the poll loop iterates over it, so PollNext draws it.
Tap ==
    /\ tg_next_id <= MaxUpdates
    /\ tg_next_id' = tg_next_id + 1
    /\ UNCHANGED <<storeVars, pollVars, hookVars, adapterVars, v2Vars>>

\* ------------------------------------------------- tv_webhook (async def)
\* The handler runs on the event loop: it yields only at
\* `await request.json()`, and tg_send blocks the loop, so no other request
\* runs while one is between line 197 and its return.
LoopBusy == \E r \in Requests : reqs[r].pc = "send"

\* The request has returned or raised: its response goes out.
Respond(r, status) ==
    reqs' = [reqs EXCEPT ![r] = [@ EXCEPT !.pc = "done", !.resp = status]]

\* lines 193-194: a request arrives; the kill-switch check, before the body
\* is awaited. Requests are numbered in the order they arrive.
WebhookStart(r) ==
    /\ reqs[r].pc = "idle"
    /\ \A q \in Requests : q < r => reqs[q].pc # "idle"
    /\ ~LoopBusy
    /\ IF KILL_SWITCH
       THEN Respond(r, "423 kill_switch_armed")
       ELSE reqs' = [reqs EXCEPT ![r].pc = "await"]
    /\ UNCHANGED <<storeVars, pollVars, tgVars, adapterVars, v2Vars>>

\* tv_webhook, were it to draw the pid and go on to tg_send with the
\* proposal not stored.
WebhookCreate_unstored(r, body, pid) ==
    /\ reqs[r].pc = "await"
    /\ ~LoopBusy
    /\ IF body.secret # TV_WEBHOOK_SECRET
       THEN reqs' = [reqs EXCEPT ![r] = [@ EXCEPT !.pc = "done",
                                                  !.secret = body.secret,
                                                  !.resp = "401 bad secret"]]
       ELSE reqs' = [reqs EXCEPT ![r] = [@ EXCEPT !.pc = "send",
                                                  !.secret = body.secret,
                                                  !.pid = pid]]
    /\ UNCHANGED <<storeVars, pollVars, tgVars, adapterVars, v2Vars>>

\* lines 196-221: the body arrives; secret check; the proposal is stored.
WebhookCreate(r, body, pid) ==
    /\ reqs[r].pc = "await"
    /\ ~LoopBusy
    /\ IF body.secret # TV_WEBHOOK_SECRET
       THEN /\ reqs' = [reqs EXCEPT ![r] = [@ EXCEPT !.pc = "done",
                                                     !.secret = body.secret,
                                                     !.resp = "401 bad secret"]]
            /\ UNCHANGED PROPOSALS
       ELSE /\ PROPOSALS' = DictSet(PROPOSALS, pid,
                                    [status |-> "PENDING",
                                     symbol |-> SymbolOf(body),
                                     side |-> SideOf(body)])
            /\ reqs' = [reqs EXCEPT ![r] = [@ EXCEPT !.pc = "send",
                                                     !.secret = body.secret,
                                                     !.pid = pid]]
    /\ UNCHANGED <<KILL_SWITCH, pollVars, tgVars, adapterVars, v2Vars>>

\* lines 223-234, tg_send returned: the message with keyboard(pid) is out
\* and the request answers {"ok": True, "id": pid}.
WebhookSendOk(r) ==
    /\ reqs[r].pc = "send"
    /\ Respond(r, "200 ok")
    /\ UNCHANGED <<storeVars, pollVars, tgVars, adapterVars, v2Vars>>

\* lines 233, 46-47: requests.post or raise_for_status raised; nothing in
\* tv_webhook catches it, the request ends as a 500.
WebhookSendFail_rollback(r) ==
    /\ reqs[r].pc = "send"
    /\ Respond(r, "500")
    /\ PROPOSALS' = [p \in DOMAIN PROPOSALS \ {reqs[r].pid} |-> PROPOSALS[p]]
    /\ UNCHANGED <<KILL_SWITCH, pollVars, tgVars, adapterVars, v2Vars>>
WebhookSendFail(r) ==
    /\ reqs[r].pc = "send"
    /\ Respond(r, "500")
    /\ UNCHANGED <<storeVars, pollVars, tgVars, adapterVars, v2Vars>>

\* The pids whose proposal message, with its approve/reject buttons, went out.
sent == {reqs[r].pid : r \in {q \in Requests : reqs[q].resp = "200 ok"}}

\* ------------------------------------------------- handle_callback_query
\* The branch of lines 98-129 taken for callback u against the store P.
Branch(u, P) ==
    CASE u.kind = "approve" -> IF u.pid \in DOMAIN P THEN "approved" ELSE "unknown"
      [] u.kind = "reject" -> IF u.pid \in DOMAIN P THEN "rejected" ELSE "unknown"
      [] u.kind = "kill:on" -> "kill_on"
      [] u.kind = "kill:off" -> "kill_off"
      [] OTHER -> "unhandled"

\* lines 101 and 110: the status is assigned whatever it was before.
ApplyDecision(P, u) ==
    CASE Branch(u, P) = "approved" -> SetStatus(P, u.pid, "APPROVED")
      [] Branch(u, P) = "rejected" -> SetStatus(P, u.pid, "REJECTED")
      [] OTHER -> P

\* lines 117 and 123: KILL_SWITCH["armed"]
ApplyKill(K, u) ==
    CASE u.kind = "kill:on" -> TRUE
      [] u.kind = "kill:off" -> FALSE
      [] OTHER -> K

\* The text handed to tg_answer_callback in each branch.
AckText(branch) ==
    CASE branch = "approved" -> "Approved"
      [] branch = "rejected" -> "Rejected"
      [] branch = "unknown" -> "Unknown proposal"
      [] branch = "kill_on" -> "Kill switch ARMED"
      [] branch = "kill_off" -> "Kill switch OFF"
      [] OTHER -> "Unhandled"

\* The call that follows the acknowledgement: tg_edit (103, 112), tg_send
\* (120, 126), or nothing (105, 114, 129).
FollowUp(branch) ==
    CASE branch \in {"approved", "rejected"} -> "editMessageText"
      [] branch \in {"kill_on", "kill_off"} -> "sendMessage"
      [] OTHER -> "none"

\* ---------------------------------------------------- telegram_poll_loop
\* Where the loop is once an update is done: the next one of the batch, or
\* the next getUpdates.
AfterUpdate(rest) == IF rest = <<>> THEN "poll" ELSE "for"

\* getUpdates(offset): the ids of the queued updates with
\* update_id >= offset, ascending.
RECURSIVE Ascending(_, _)
Ascending(lo, hi) == IF lo > hi THEN <<>> ELSE <<lo>> \o Ascending(lo + 1, hi)

GetUpdates(offset) ==
    Ascending(IF offset > 1 THEN offset ELSE 1, tg_next_id - 1)

\* lines 146-154, the call answered ok.
PollGetUpdates ==
    /\ poll_pc = "poll"
    /\ result' = GetUpdates(TG_OFFSET)
    /\ poll_pc' = AfterUpdate(result')
    /\ UNCHANGED <<storeVars, TG_OFFSET, cq, err, last_answer, tgVars,
                   hookVars, adapterVars, v2Vars>>

\* lines 146-152 and 161-164: the call raised (caught at 161), or answered
\* ok: false (150-152); either way the loop sleeps 2 s and polls again.
PollGetUpdatesFail ==
    /\ poll_pc = "poll"
    /\ poll_pc' = "except"
    /\ err' = "getUpdates"
    /\ UNCHANGED <<storeVars, TG_OFFSET, result, cq, last_answer, tgVars,
                   hookVars, adapterVars, v2Vars>>

\* What the Telegram calls of one handler run do: all return, the
\* acknowledgement raises, or the call after it raises (tg_api, lines 46-47).
Outcomes == {"ok", "answer_raised", "followup_raised"}

\* The answerCallbackQuery call of a handler run, recorded when it is made.
Answered_unless_unhandled(c) ==
    IF c.branch = "unhandled" THEN last_answer
    ELSE [update_id |-> c.update_id, text |-> AckText(c.branch)]
Answered(c) == [update_id |-> c.update_id, text |-> AckText(c.branch)]

\* The for loop, were it to move the offset once the handler has returned.
PollNext_offset_after(t, outcome) ==
    /\ poll_pc = "for"
    /\ result # <<>>
    /\ LET u == [update_id |-> Head(result), kind |-> t.data.kind,
                 pid |-> t.data.pid, from |-> t.from]
           c == [update_id |-> u.update_id, kind |-> u.kind, pid |-> u.pid,
                 from |-> u.from, branch |-> Branch(u, PROPOSALS)]
       IN
       /\ TG_OFFSET' = IF outcome = "ok" THEN u.update_id + 1 ELSE TG_OFFSET
       /\ IF u.kind = "message"
          THEN /\ outcome = "ok"
               /\ result' = Tail(result)
               /\ poll_pc' = AfterUpdate(result')
               /\ UNCHANGED <<PROPOSALS, KILL_SWITCH, cq, err, last_answer>>
          ELSE /\ PROPOSALS' = ApplyDecision(PROPOSALS, u)
               /\ KILL_SWITCH' = ApplyKill(KILL_SWITCH, u)
               /\ cq' = c
               /\ last_answer' = Answered(c)
               /\ CASE outcome = "ok" ->
                         /\ result' = Tail(result)
                         /\ poll_pc' = AfterUpdate(result')
                         /\ UNCHANGED err
                    [] outcome = "answer_raised" ->
                         /\ result' = <<>>
                         /\ poll_pc' = "except"
                         /\ err' = "answerCallbackQuery"
                    [] outcome = "followup_raised" ->
                         /\ FollowUp(c.branch) # "none"
                         /\ result' = <<>>
                         /\ poll_pc' = "except"
                         /\ err' = FollowUp(c.branch)
    /\ UNCHANGED <<tgVars, hookVars, adapterVars, v2Vars>>

\* lines 155-159 with handle_callback_query, lines 89-129: one iteration of
\* the for loop. The offset moves past the update, then the handler picks
\* its branch, changes the store or the kill switch, calls
\* tg_answer_callback and then tg_edit / tg_send. A call that raises leaves
\* the handler and the for loop for line 161; the rest of the batch is
\* dropped and fetched again from TG_OFFSET.
PollNext(t, outcome) ==
    /\ poll_pc = "for"
    /\ result # <<>>
    /\ LET u == [update_id |-> Head(result), kind |-> t.data.kind,
                 pid |-> t.data.pid, from |-> t.from]
           c == [update_id |-> u.update_id, kind |-> u.kind, pid |-> u.pid,
                 from |-> u.from, branch |-> Branch(u, PROPOSALS)]
       IN
       /\ TG_OFFSET' = u.update_id + 1
       /\ IF u.kind = "message"
          THEN /\ outcome = "ok"
               /\ result' = Tail(result)
               /\ poll_pc' = AfterUpdate(result')
               /\ UNCHANGED <<PROPOSALS, KILL_SWITCH, cq, err, last_answer>>
          ELSE /\ PROPOSALS' = ApplyDecision(PROPOSALS, u)
               /\ KILL_SWITCH' = ApplyKill(KILL_SWITCH, u)
               /\ cq' = c
               /\ last_answer' = Answered(c)
               /\ CASE outcome = "ok" ->
                         /\ result' = Tail(result)
                         /\ poll_pc' = AfterUpdate(result')
                         /\ UNCHANGED err
                    [] outcome = "answer_raised" ->
                         /\ result' = <<>>
                         /\ poll_pc' = "except"
                         /\ err' = "answerCallbackQuery"
                    [] outcome = "followup_raised" ->
                         /\ FollowUp(c.branch) # "none"
                         /\ result' = <<>>
                         /\ poll_pc' = "except"
                         /\ err' = FollowUp(c.branch)
    /\ UNCHANGED <<tgVars, hookVars, adapterVars, v2Vars>>

\* lines 163-164: print, sleep, and back to the top of `while True`.
PollSleep ==
    /\ poll_pc = "except"
    /\ poll_pc' = "poll"
    /\ err' = "none"
    /\ UNCHANGED <<storeVars, TG_OFFSET, result, cq, last_answer, tgVars,
                   hookVars, adapterVars, v2Vars>>

\* The alerts the webhook is sent: every field present, or symbol / side
\* left out.
CompleteBodies == [secret : SecretInputs, symbol : {"spy"}, side : {"put"}]
AllBodies == [secret : SecretInputs, symbol : Symbols, side : Sides]

InitV2Idle ==
    /\ users = <<>>
    /\ now = 0
    /\ v2_resp = NoResp

Init == InitApp /\ InitV2Idle

NextApp(bodies) ==
    \/ Tap
    \/ \E r \in Requests : WebhookStart(r)
    \/ \E r \in Requests, body \in bodies, pid \in uuid4_hex10 :
          WebhookCreate(r, body, pid)
    \/ \E r \in Requests : WebhookSendOk(r)
    \/ \E r \in Requests : WebhookSendFail(r)
    \/ PollGetUpdates
    \/ PollGetUpdatesFail
    \/ \E t \in Taps, outcome \in Outcomes : PollNext(t, outcome)
    \/ PollSleep

Next == NextApp(CompleteBodies)

\* src/app.py with well-formed alerts.
Spec == Init /\ [][Next]_vars

\* One iteration of the for loop, whatever the update holds and whatever
\* the Telegram calls do.
PollIterate == \E t \in Taps, outcome \in Outcomes : PollNext(t, outcome)

\* src/app.py with its polling thread running: the thread is never stuck in
\* the for loop (every Telegram call returns or raises, timeout=30) nor in
\* sleep(2), and getUpdates, tried again and again, does not fail for ever.
SpecLive ==
    /\ Init /\ [][Next]_vars
    /\ WF_vars(PollIterate)
    /\ WF_vars(PollSleep)
    /\ SF_vars(PollGetUpdates)

\* src/app.py with alerts that may leave out symbol or side.
NextFields == NextApp(AllBodies)

SpecFields == Init /\ [][NextFields]_vars

\* ===================================================== bosstrader_v2/app.py
\* Datetimes are instants on one integer clock: the ORM is taken to hand
\* back paid_until as written, comparable with now_utc().
Emails == {"a@x.io", "b@x.io"}
Keys == {"k1", "k2"}            \* values secrets.token_urlsafe(32) may return
KeyInputs == Keys \cup {None}   \* X-Api-Key header / api_key field, or absent
ADMIN_KEY == "admin"
AdminHeaders == {"admin", "wrong"}
Days == (0 - 1)..MaxDays
Times == 0..MaxTime

\* The tables the database may hold when the service starts (init_db only
\* creates what is missing): none, or one row written earlier.
InitialTables ==
    {<<>>} \cup
    {<<[email |-> "a@x.io", api_key |-> "k1", is_active |-> a, paid_until |-> p]>> :
        a \in BOOLEAN, p \in {Null} \cup {At(t) : t \in (0 - 1)..1}}

InitV2 ==
    /\ InitApp
    /\ users \in InitialTables
    /\ now = 0
    /\ v2_resp = NoResp

\* db.query(User).filter(...).first(): the row ids matching.
ByEmail(email) == {i \in DOMAIN users : users[i].email = email}
ByKey(key) == {i \in DOMAIN users : users[i].api_key = key}

\* src/security.py:10-19
is_paid_active_strict(user, t) ==
    IF ~user.is_active THEN FALSE
    ELSE IF user.paid_until = Null THEN FALSE
    ELSE InstantOf(user.paid_until) > t
is_paid_active(user, t) ==
    IF ~user.is_active THEN FALSE
    ELSE IF user.paid_until = Null THEN FALSE
    ELSE InstantOf(user.paid_until) >= t

\* src/bosstrader_v2/app.py:99-102
is_paid(user, t) ==
    IF user.paid_until = Null THEN FALSE
    ELSE InstantOf(user.paid_until) >= t

\* require_admin, lines 90-96: TRUE when the request may go on.
require_admin(hdr) == ADMIN_KEY = "" \/ hdr = ADMIN_KEY

\* .first() of a query: the row, or NoUser for Python's None.
First(ids) == IF ids = {} THEN NoUser ELSE users[CHOOSE i \in ids : TRUE]

ReplyUser(op, status, id, key, user) ==
    v2_resp' = [op |-> op, status |-> status, id |-> id, key |-> key,
                user |-> user, at |-> now]
Reply(op, status, key, user) == ReplyUser(op, status, NoId, key, user)

\* The id of .first() of a query.
FirstId(ids) == CHOOSE i \in ids : TRUE

\* POST /admin/create-user, lines 164-188. api_key is the value
\* new_api_key() returns; a value some row already holds violates the unique
\* index and db.commit() raises.
AdminCreateUser_reissue(hdr, email, api_key) ==
    /\ LET existing == First(ByEmail(email))
           user == [email |-> email, api_key |-> api_key, is_active |-> TRUE,
                    paid_until |-> Null]
       IN
       IF ~require_admin(hdr)
       THEN Reply("create_user", "401 Missing/invalid admin key", None, NoUser)
            /\ UNCHANGED users
       ELSE IF ByKey(api_key) # {}
       THEN Reply("create_user", "500", None, NoUser) /\ UNCHANGED users
       ELSE IF existing # NoUser
       THEN /\ users' = [users EXCEPT ![FirstId(ByEmail(email))].api_key = api_key]
            /\ ReplyUser("create_user", "200 ok", FirstId(ByEmail(email)),
                         api_key, users'[FirstId(ByEmail(email))])
       ELSE /\ users' = Append(users, user)
            /\ ReplyUser("create_user", "200 ok", Len(users'), api_key, user)
    /\ UNCHANGED <<appVars, now>>
AdminCreateUser(hdr, email, api_key) ==
    /\ LET existing == First(ByEmail(email))
           user == [email |-> email, api_key |-> api_key, is_active |-> TRUE,
                    paid_until |-> Null]
       IN
       IF ~require_admin(hdr)
       THEN Reply("create_user", "401 Missing/invalid admin key", None, NoUser)
            /\ UNCHANGED users
       ELSE IF existing # NoUser
       THEN ReplyUser("create_user", "200 ok", FirstId(ByEmail(email)),
                      existing.api_key, existing)
            /\ UNCHANGED users
       ELSE IF ByKey(api_key) # {}
       THEN Reply("create_user", "500", None, NoUser) /\ UNCHANGED users
       ELSE /\ users' = Append(users, user)
            /\ ReplyUser("create_user", "200 ok", Len(users'), api_key, user)
    /\ UNCHANGED <<appVars, now>>

\* POST /admin/set-paid-until, lines 191-204.
AdminSetPaidUntil(hdr, email, days) ==
    /\ IF ~require_admin(hdr)
       THEN Reply("set_paid_until", "401 Missing/invalid admin key", None, NoUser)
            /\ UNCHANGED users
       ELSE IF ByEmail(email) = {}
       THEN Reply("set_paid_until", "404 User not found", None, NoUser)
            /\ UNCHANGED users
       ELSE LET i == CHOOSE i \in ByEmail(email) : TRUE IN
            /\ users' = [users EXCEPT ![i].paid_until = At(now + days)]
            /\ ReplyUser("set_paid_until", "200 ok", i, users[i].api_key,
                         users'[i])
    /\ UNCHANGED <<appVars, now>>

\* tv_webhook, were it to enrol the key it does not know.
TvWebhookV2_enrol(secret, hdr, key) ==
    /\ LET api_key == IF hdr # None THEN hdr ELSE key
           user == First(ByKey(api_key))
       IN
       IF TV_WEBHOOK_SECRET # "" /\ secret # TV_WEBHOOK_SECRET
       THEN Reply("tv_webhook", "401 Invalid webhook secret", api_key, NoUser)
            /\ UNCHANGED users
       ELSE IF api_key = None
       THEN Reply("tv_webhook", "400 Missing api_key", api_key, NoUser)
            /\ UNCHANGED users
       ELSE IF user = NoUser
       THEN /\ Reply("tv_webhook", "401 Invalid or inactive api_key", api_key, user)
            /\ users' = Append(users, [email |-> "a@x.io", api_key |-> api_key,
                                       is_active |-> FALSE, paid_until |-> Null])
       ELSE IF ~user.is_active
       THEN Reply("tv_webhook", "401 Invalid or inactive api_key", api_key, user)
            /\ UNCHANGED users
       ELSE IF ~is_paid(user, now)
       THEN Reply("tv_webhook", "402 Payment required", api_key, user)
            /\ UNCHANGED users
       ELSE Reply("tv_webhook", "200 ok", api_key, user) /\ UNCHANGED users
    /\ UNCHANGED <<appVars, now>>

\* POST /tv-webhook, lines 232-269. hdr is the X-Api-Key header, key the
\* api_key field of the body.
TvWebhookV2(secret, hdr, key) ==
    /\ LET api_key == IF hdr # None THEN hdr ELSE key
           user == First(ByKey(api_key))
       IN
       IF TV_WEBHOOK_SECRET # "" /\ secret # TV_WEBHOOK_SECRET
       THEN Reply("tv_webhook", "401 Invalid webhook secret", api_key, NoUser)
       ELSE IF api_key = None
       THEN Reply("tv_webhook", "400 Missing api_key", api_key, NoUser)
       ELSE IF user = NoUser \/ ~user.is_active
       THEN Reply("tv_webhook", "401 Invalid or inactive api_key", api_key, user)
       ELSE IF ~is_paid(user, now)
       THEN Reply("tv_webhook", "402 Payment required", api_key, user)
       ELSE Reply("tv_webhook", "200 ok", api_key, user)
    /\ UNCHANGED <<appVars, users, now>>

\* src/security.py: is_paid_active applied to a row of the table.
IsPaidActive(i) ==
    /\ i \in DOMAIN users
    /\ Reply("is_paid_active",
             IF is_paid_active(users[i], now) THEN "True" ELSE "False",
             users[i].api_key, users[i])
    /\ UNCHANGED <<appVars, users, now>>

\* Time passes.
Tick ==
    /\ now < MaxTime
    /\ now' = now + 1
    /\ UNCHANGED <<appVars, users, v2_resp>>

NextV2 ==
    \/ \E hdr \in AdminHeaders, email \in Emails, k \in Keys :
          AdminCreateUser(hdr, email, k)
    \/ \E hdr \in AdminHeaders, email \in Emails, days \in Days :
          AdminSetPaidUntil(hdr, email, days)
    \/ \E secret \in SecretInputs, hdr \in KeyInputs, key \in KeyInputs :
          TvWebhookV2(secret, hdr, key)
    \/ \E i \in 1..Cardinality(Emails) : IsPaidActive(i)
    \/ Tick

SpecV2 == InitV2 /\ [][NextV2]_vars

\* A deployment runs one of the two programs: src/app.py (which has no users
\* table) or src/bosstrader_v2/app.py (which has no proposals). Each runs
\* while the state of the other is as it was at the start.
NextEither ==
    \/ InitV2Idle /\ Next
    \/ InitApp /\ NextV2

SpecEither == InitV2 /\ [][NextEither]_vars

\* ================================================================== claims
Terminal == {"APPROVED", "REJECTED", "BLOCKED"}

\* Every proposal message goes to CHAT_ID (src/app.py:53): the operator is
\* the owner of every proposal of src/app.py.
Owner == "operator"

\* The acknowledgements that tell the sender nothing was applied.
NotApplied == {"Already decided", "Unknown proposal", "Not found"}

\* This step is a run of handle_callback_query: the offset moved past an
\* update and cq' is the callback of that update.
HandledNow == TG_OFFSET' # TG_OFFSET /\ cq'.update_id + 1 = TG_OFFSET'

\* This step is a run of handle_callback_query for a callback of one of the
\* kinds.
Handled(kinds) == HandledNow /\ cq'.kind \in kinds

\* This step is a run of handle_callback_query for approve:<pid> or
\* reject:<pid>, <pid> being in the store.
DecidedNow ==
    /\ HandledNow
    /\ cq'.kind \in {"approve", "reject"}
    /\ cq'.pid \in DOMAIN PROPOSALS

\* How often place_trade was invoked for pid, in the log T.
Invocations(T, pid) == Cardinality({i \in DOMAIN T : T[i] = pid})

\* C1 (State terminality): a decision callback never changes the status of a
\* proposal that is APPROVED, REJECTED or BLOCKED.
C1_StateTerminality ==
    [][HandledNow =>
         \A p \in DOMAIN PROPOSALS :
            PROPOSALS[p].status \in Terminal =>
               PROPOSALS'[p].status = PROPOSALS[p].status]_vars

\* C2 (At-most-once decision): an approve callback for a proposal an earlier
\* approve callback already settled is not applied again (it is acknowledged
\* as a conflict / not found), and the approved proposal has had exactly one
\* Broker Adapter invocation.
C2_AtMostOnceDecision ==
    [][(DecidedNow /\ cq'.kind = "approve"
          /\ PROPOSALS[cq'.pid].status = "APPROVED") =>
         /\ last_answer'.text \in NotApplied
         /\ Invocations(trades', cq'.pid) = 1]_vars

\* C3 (Ownership isolation): a decision callback whose sender is not the
\* owner changes no proposal and is acknowledged like an unknown id.
C3_OwnershipIsolation ==
    [][(HandledNow /\ cq'.kind \in {"approve", "reject"} /\ cq'.from # Owner) =>
         /\ PROPOSALS' = PROPOSALS
         /\ last_answer'.text = AckText("unknown")]_vars

\* C4 (Risk-gate veto): a proposal is APPROVED only after the Risk Gate was
\* evaluated for it (and allowed it) and the Broker Adapter was invoked for it
\* (and reported success).
C4_ApprovedOnlyThroughGateAndAdapter ==
    \A p \in DOMAIN PROPOSALS :
       PROPOSALS[p].status = "APPROVED" =>
          /\ p \in risk_calls /\ risk_gate(Owner, p)[1]
          /\ Invocations(trades, p) >= 1 /\ place_trade(Owner, p)[1]

\* C8 (Repeated decision is a no-op): a callback with the action token that
\* already settled the proposal changes nothing, is acknowledged as already
\* decided / not found, and is followed by no message edit.
StatusOf(kind) == IF kind = "approve" THEN "APPROVED" ELSE "REJECTED"
C8_RepeatedDecisionNoOp ==
    [][(DecidedNow /\ PROPOSALS[cq'.pid].status = StatusOf(cq'.kind)) =>
         /\ PROPOSALS' = PROPOSALS
         /\ last_answer'.text \in NotApplied
         /\ FollowUp(cq'.branch) = "none"]_vars

\* C9 (Always acknowledged): the callback the handler last ran for is the
\* one the last answerCallbackQuery call was made for: every handler run,
\* whatever its token and whatever raised in it, made its answer call.
C9_AlwaysAcknowledged ==
    /\ last_answer.update_id = cq.update_id
    /\ cq.update_id > 0 =>
          last_answer.text \in {"Approved", "Rejected", "Unknown proposal",
                                "Kill switch ARMED", "Kill switch OFF",
                                "Unhandled"}

\* C9 witness: an unrecognised token was handled, its answer call raised, and
\* the call is on record.
C9_Witness ==
    /\ cq.branch = "unhandled"
    /\ poll_pc = "except" /\ err = "answerCallbackQuery"
    /\ last_answer = [update_id |-> cq.update_id, text |-> "Unhandled"]

\* C10 (Notification failure does not roll back state): the step in which
\* tg_send raises in tv_webhook leaves the store as it is, the proposal of
\* the request in it; the step in which the acknowledgement or the message
\* edit raises in a decision callback ends with the status the callback set.
C10_NoRollback ==
    [][/\ \A r \in Requests :
            (reqs[r].pc = "send" /\ reqs'[r].resp = "500") =>
               /\ PROPOSALS' = PROPOSALS
               /\ reqs[r].pid \in DOMAIN PROPOSALS'
       /\ (DecidedNow /\ poll_pc' = "except") =>
             PROPOSALS'[cq'.pid].status = StatusOf(cq'.kind)]_vars

\* C10 witness: a request ended as a 500 because tg_send raised and its
\* proposal is stored and PENDING; a callback's call raised and the status
\* it set is in the store.
C10_Witness ==
    /\ \E r \in Requests :
          /\ reqs[r].resp = "500"
          /\ reqs[r].pid \in DOMAIN PROPOSALS
          /\ PROPOSALS[reqs[r].pid].status = "PENDING"
    /\ poll_pc = "except"
    /\ err \in {"answerCallbackQuery", "editMessageText"}
    /\ cq.branch = "approved"
    /\ PROPOSALS[cq.pid].status = "APPROVED"

\* C11 (Delivery failure is never surfaced): a request whose alert was
\* accepted (its proposal stored, tg_send under way) completes with
\* {"ok": True, "id": pid}, whether or not tg_send raised.
C11_DeliveryFailureNotSurfaced ==
    [][\A r \in Requests :
          (reqs[r].pc = "send" /\ reqs'[r].pc = "done") =>
             reqs'[r].resp = "200 ok"]_vars

\* The step in which request r, its secret accepted, stores its proposal
\* (src/app.py:208-221).
CreatedNow(r) == reqs[r].pc = "await" /\ reqs'[r].pc = "send"

\* C13 (Fresh identifier on create): the proposal of an accepted alert is
\* stored as PENDING under an identifier no stored proposal has; the stored
\* proposals stay as they are and the store grows by exactly one.
C13_FreshIdentifier ==
    [][\A r \in Requests :
          CreatedNow(r) =>
             /\ reqs'[r].pid \notin DOMAIN PROPOSALS
             /\ PROPOSALS'[reqs'[r].pid].status = "PENDING"
             /\ \A p \in DOMAIN PROPOSALS : PROPOSALS'[p] = PROPOSALS[p]
             /\ Cardinality(DOMAIN PROPOSALS') =
                   Cardinality(DOMAIN PROPOSALS) + 1]_vars

\* C15 (Callback from a non-entitled or unlinked actor): an approve or reject
\* callback for a stored proposal, pressed by somebody who is not linked to
\* a user, leaves the status as it is and is acknowledged "not linked" /
\* "membership inactive". src/app.py knows one user, the operator of CHAT_ID.
C15_UnlinkedActorDenied ==
    [][(DecidedNow /\ cq'.from # Owner) =>
         /\ PROPOSALS'[cq'.pid].status = PROPOSALS[cq'.pid].status
         /\ last_answer'.text \in {"not linked", "membership inactive"}]_vars

\* The identifiers tv_webhook has drawn so far (line 208).
Issued == {reqs[r].pid : r \in Requests} \ {NoPid}

\* C19 (Creation precedes decision): an identifier is in the store from the
\* moment it is drawn, so while tg_send is under way and ever after; it is
\* stored as PENDING before its message is out; and a decision callback for
\* an identifier drawn so far finds the proposal: "Unknown proposal" is
\* answered only for an identifier not drawn.
C19_CreationPrecedesDecision ==
    /\ [](Issued \subseteq DOMAIN PROPOSALS)
    /\ [][/\ \A r \in Requests :
               CreatedNow(r) =>
                  /\ PROPOSALS'[reqs'[r].pid].status = "PENDING"
                  /\ reqs'[r].resp # "200 ok"
          /\ Handled({"approve", "reject"}) =>
                (cq'.branch = "unknown" <=> cq'.pid \notin Issued)]_vars

\* C19 witness: a callback approve:<pid> was handled while tg_send for <pid>
\* had not returned yet, and it found the proposal.
C19_Witness ==
    /\ cq.branch = "approved"
    /\ cq.pid \notin sent
    /\ \E r \in Requests : reqs[r].pc = "send" /\ reqs[r].pid = cq.pid
    /\ PROPOSALS[cq.pid].status = "APPROVED"

\* C20 (Kill switch blocks new proposals): while the kill switch is armed no
\* request stores a proposal and no proposal message goes out.
C20_KillSwitchBlocks ==
    [][KILL_SWITCH =>
         \A r \in Requests :
            /\ ~CreatedNow(r)
            /\ ~(reqs[r].pc = "send" /\ reqs'[r].resp = "200 ok")]_vars

\* ---------------------------------------------------- claims on SpecFields
\* What a run of handle_callback_query does to the store: approve:<pid> and
\* reject:<pid> change at most the status of <pid>, the other callbacks
\* change nothing; no identifier leaves the store.
CallbackFrame ==
    /\ DOMAIN PROPOSALS \subseteq DOMAIN PROPOSALS'
    /\ Handled({"approve", "reject"}) =>
          /\ DOMAIN PROPOSALS' = DOMAIN PROPOSALS
          /\ \A p \in DOMAIN PROPOSALS :
                /\ p # cq'.pid => PROPOSALS'[p] = PROPOSALS[p]
                /\ PROPOSALS'[p].symbol = PROPOSALS[p].symbol
                /\ PROPOSALS'[p].side = PROPOSALS[p].side
    /\ Handled({"kill:on", "kill:off", "other"}) => PROPOSALS' = PROPOSALS

\* Who may touch the store: a new identifier appears only in the step in
\* which a request stores its proposal, and a stored proposal changes only
\* in a run of handle_callback_query for approve:<pid> or reject:<pid>.
OnlyCreateAndDecide ==
    /\ \A p \in DOMAIN PROPOSALS' \ DOMAIN PROPOSALS :
          \E r \in Requests : CreatedNow(r) /\ reqs'[r].pid = p
    /\ \A p \in DOMAIN PROPOSALS \cap DOMAIN PROPOSALS' :
          PROPOSALS'[p] # PROPOSALS[p] =>
             Handled({"approve", "reject"}) /\ cq'.pid = p

\* C14 (Lifecycle frame): proposals are created only by the webhook, changed
\* only by approve / reject callbacks, which change nothing but the status of
\* the proposal they name, and are never removed.
C14_LifecycleFrame == [][CallbackFrame /\ OnlyCreateAndDecide]_vars

\* What tv_webhook stores for a field the alert leaves out (lines 200-201).
\* The alerts of the model name SPY and PUT, so a stored "UNKNOWN" or "CALL"
\* is a default.
Defaulted(proposal) ==
    \/ proposal.symbol = SymbolOf([symbol |-> Absent])
    \/ proposal.side = SideOf([side |-> Absent])

\* C18 (Missing required alert fields are rejected): no proposal is stored
\* with a defaulted symbol or side, and no request that lacked one ends with
\* its proposal sent.
C18_MissingFieldsRejected ==
    /\ \A p \in DOMAIN PROPOSALS : ~Defaulted(PROPOSALS[p])
    /\ \A p \in sent \cap DOMAIN PROPOSALS : ~Defaulted(PROPOSALS[p])

\* ------------------------------------------------------ claims on SpecV2
\* The spec's is_entitled: active, paid_until set, paid_until >= now.
Entitled(user, t) ==
    /\ user.is_active
    /\ user.paid_until # Null
    /\ InstantOf(user.paid_until) >= t

\* C5 (Entitlement correctness): is_paid_active(user) at instant now is true
\* iff the user is active, paid_until is set and paid_until >= now; and the
\* v2 webhook lets a resolved user through iff the same holds.
C5_EntitlementCorrect ==
    /\ v2_resp.op = "is_paid_active" =>
          (v2_resp.status = "True" <=> Entitled(v2_resp.user, v2_resp.at))
    /\ (v2_resp.op = "tv_webhook" /\ v2_resp.user # NoUser) =>
          (v2_resp.status = "200 ok" <=> Entitled(v2_resp.user, v2_resp.at))

\* C5 witness: the inclusive boundary, paid_until = now, checked and entitled.
C5_Witness ==
    /\ v2_resp.op = "is_paid_active"
    /\ v2_resp.user.is_active
    /\ v2_resp.user.paid_until = At(v2_resp.at)
    /\ v2_resp.status = "True"

\* C6 (Alert admission): ok:true only for a resolved, entitled user; an
\* alert of a resolved user with active = false gets the soft rejection
\* {ok: false, blocked: "membership_inactive"}.
SoftRejection == "200 ok:false blocked:membership_inactive"
C6_AlertAdmission ==
    v2_resp.op = "tv_webhook" =>
       /\ v2_resp.status = "200 ok" =>
             v2_resp.user # NoUser /\ Entitled(v2_resp.user, v2_resp.at)
       /\ (v2_resp.user # NoUser /\ ~v2_resp.user.is_active) =>
             v2_resp.status = SoftRejection

\* C7 (Unauthenticated versus forbidden): the response to a credential that
\* matches a user who is not entitled is never the response a credential
\* that matches no user gets.
AuthFailure == "401 Invalid or inactive api_key"
C7_UnauthenticatedVsForbidden ==
    v2_resp.op = "tv_webhook" =>
       /\ (v2_resp.key # None /\ v2_resp.user = NoUser
             /\ v2_resp.status # "401 Invalid webhook secret") =>
             v2_resp.status = AuthFailure
       /\ (v2_resp.user # NoUser /\ ~Entitled(v2_resp.user, v2_resp.at)) =>
             v2_resp.status # AuthFailure

\* C16 (Extend-entitlement makes the user entitled): when set-paid-until
\* has succeeded with N >= 1 days, the row it returns has
\* paid_until = now + N, is active, and so is entitled at that instant;
\* for an unknown email the answer is 404 and the table is as before.
C16_ExtendMakesEntitled ==
    v2_resp.op = "set_paid_until" =>
       /\ (v2_resp.status = "200 ok"
             /\ InstantOf(v2_resp.user.paid_until) >= v2_resp.at + 1) =>
             v2_resp.user.is_active /\ Entitled(v2_resp.user, v2_resp.at)
       /\ v2_resp.status = "404 User not found" => v2_resp.user = NoUser

\* No two rows share an email or an api_key.
UniqueCredentials ==
    \A i, j \in DOMAIN users :
       i # j => users[i].email # users[j].email
                /\ users[i].api_key # users[j].api_key

\* Every row stays, under its id, with its email and its api_key.
CredentialsKept ==
    \A i \in DOMAIN users :
       /\ i \in DOMAIN users'
       /\ users'[i].email = users[i].email
       /\ users'[i].api_key = users[i].api_key

\* A create-user call that succeeded: for an email the table holds, no row
\* is added and the answer carries the id and the api_key of the row of
\* that email (what the call that created it returned); otherwise one row
\* is added and the answer carries its id and api_key.
CreateOrFetch ==
    (v2_resp' # v2_resp /\ v2_resp'.op = "create_user"
        /\ v2_resp'.status = "200 ok") =>
       LET email == v2_resp'.user.email IN
       IF ByEmail(email) # {}
       THEN /\ users' = users
            /\ v2_resp'.id \in ByEmail(email)
            /\ v2_resp'.key = users[v2_resp'.id].api_key
       ELSE /\ Len(users') = Len(users) + 1
            /\ v2_resp'.id = Len(users')
            /\ users'[v2_resp'.id].email = email
            /\ v2_resp'.key = users'[v2_resp'.id].api_key

\* C17 (Create-or-fetch is idempotent, credentials are immutable and
\* unique): create-user for an existing email creates nothing and returns
\* that user's id and api_key; no operation changes an api_key or removes a
\* row; no two rows share an email or an api_key.
C17_CreateOrFetchIdempotent ==
    /\ []UniqueCredentials
    /\ [][CredentialsKept /\ CreateOrFetch]_vars

\* C17 witness: with two users in the table, create-user was called for the
\* email of the first and answered with id 1 and that user's api_key.
C17_Witness ==
    /\ Len(users) = 2
    /\ v2_resp.op = "create_user" /\ v2_resp.status = "200 ok"
    /\ v2_resp.id = 1
    /\ v2_resp.key = users[1].api_key
    /\ v2_resp.user.email = users[1].email

\* ---------------------------------------------------- claims on SpecEither
\* The step is a /tv-webhook call of bosstrader_v2 whose credential is
\* missing or matches nothing: no api_key, a wrong secret or an unknown key.
V2Unauthenticated ==
    /\ v2_resp' # v2_resp \/ users' # users
    /\ v2_resp'.op = "tv_webhook"
    /\ v2_resp'.key = None \/ v2_resp'.user = NoUser

\* The step in which request r of src/app.py, its body read, turns out to
\* carry a secret that is not TV_WEBHOOK_SECRET (or none).
AppUnauthenticated(r) ==
    /\ reqs[r].pc = "await" /\ reqs'[r].pc # "await"
    /\ reqs'[r].secret # TV_WEBHOOK_SECRET

\* What an unauthenticated alert leaves alone: the store, the kill switch,
\* the messages sent, the users.
NoSideEffects ==
    /\ PROPOSALS' = PROPOSALS /\ KILL_SWITCH' = KILL_SWITCH
    /\ sent' = sent /\ users' = users

IteratedNow == poll_pc = "for" /\ result # <<>> /\ result' # result

\* The offset never decreases; an iteration takes an update at or above the
\* offset and leaves the offset one past it, also when the handler raised;
\* handle_callback_query runs only in an iteration, for the update iterated.
DispatchedOnce ==
    /\ TG_OFFSET' >= TG_OFFSET
    /\ IteratedNow =>
          /\ Head(result) >= TG_OFFSET
          /\ TG_OFFSET' = Head(result) + 1
    /\ cq' # cq => IteratedNow /\ cq'.update_id = Head(result)

\* The updates Telegram has queued so far.
Queued == 1..(tg_next_id - 1)

\* C21 (Poll loop dispatches each update at most once and keeps running):
\* the handler has run only for updates below the offset, and every
\* iteration moves the offset past its update, so no update is iterated
\* twice; after an error the loop polls again; every queued update is
\* iterated in the end.
C21_PollLoopAtMostOnceAndRuns ==
    /\ [](cq.update_id < TG_OFFSET \/ cq = NoCq)
    /\ [][DispatchedOnce]_vars
    /\ (poll_pc = "except") ~> (poll_pc = "poll")
    /\ \A id \in 1..MaxUpdates : (id \in Queued) ~> (TG_OFFSET > id)

\* C21 witness: the handler raised for an update, the offset is one past
\* that update, and a later update is queued.
C21_Witness ==
    /\ poll_pc = "except"
    /\ err \in {"answerCallbackQuery", "editMessageText", "sendMessage"}
    /\ TG_OFFSET = cq.update_id + 1
    /\ TG_OFFSET \in Queued

====
